---------------------------- MODULE Spec2Model ----------------------------
(***************************************************************************)
(* bm::SPSCQueue<T> (include/bm/bm_sim/spsc_queue.h): a bounded single     *)
(* producer / single consumer ring with lazily published indices, event    *)
(* thresholds and two latching semaphores.                                 *)
(*                                                                         *)
(* One producer thread runs push_front, one consumer thread runs pop_back  *)
(* (single-item or batch form).  Every access to a std::atomic field and   *)
(* every semaphore operation is one step of its thread; the atomics use    *)
(* the default sequentially consistent ordering, so an interleaving of     *)
(* these steps is what the two threads can do.  index_t is modelled with   *)
(* IndexBits bits instead of 64; all index arithmetic is modulo            *)
(* 2^IndexBits, as the unsigned arithmetic of the source is modulo 2^64.   *)
(* The element type is the one the switch instantiates the queue with,     *)
(* std::unique_ptr<Packet>: an item is a non-zero tag and a moved-from     *)
(* slot holds Null.                                                        *)
(***************************************************************************)
EXTENDS Integers, Sequences, FiniteSets

\* ------------------------------------------------------------------ bounds
\* number of bits of index_t in the model (64 in the source)
IndexBits == 4
\* largest valid capacity a queue is constructed with
MaxCap == 3
\* number of push_front calls the producer makes
MaxItems == 4
\* the capacity of the queue of scenario S1 (single element)
S1Capacity == 4
\* number of significant bits of a double in the model (53 in the source)
MantissaBits == 3

\* ---------------------------------------------------------- index arithmetic
\* number of values of index_t
Modulus == 2 ^ IndexBits

\* index_t(a - b)
Sub(a, b) == (a - b + Modulus) % Modulus

\* index_t(a + b)
Add(a, b) == (a + b) % Modulus

\* index_t(a / b), unsigned division
Div(a, b) == a \div b

\* a & b on non-negative integers
RECURSIVE BitAnd(_, _)
BitAnd(a, b) ==
    IF a = 0 \/ b = 0 THEN 0
    ELSE 2 * BitAnd(a \div 2, b \div 2) + (IF a % 2 = 1 /\ b % 2 = 1 THEN 1 ELSE 0)

\* static constexpr size_t max_size = 1ul << (sizeof(index_t)*8 - 1)
max_size == 2 ^ (IndexBits - 1)

\* number of bits of n >= 1
RECURSIVE BitLen(_)
BitLen(n) == IF n <= 1 THEN 1 ELSE 1 + BitLen(n \div 2)

\* floor(log2(x)) for x >= 1
FloorLog2(x) == BitLen(x) - 1

(* the conversion of the size_t max_capacity to the double log2 takes: the  *)
(* nearest value with MantissaBits significant bits, ties to the even one  *)
ToDouble(n) ==
    IF n < 2 ^ MantissaBits THEN n
    ELSE LET unit == 2 ^ (BitLen(n) - MantissaBits)
             q == n \div unit
             r == n % unit
         IN  IF 2 * r > unit \/ (2 * r = unit /\ q % 2 = 1)
             THEN (q + 1) * unit
             ELSE q * unit

(* log2(x) is itself rounded to a double: for 2^k < x < 2^(k+1) the result  *)
(* is the integer k when log2(x) <= k + half an ulp of k, i.e. when         *)
(* x^R <= 2^(k*R + 1) for R = 2^(MantissaBits - floor(log2(k))).            *)
(* (1 + e)^R > 2 whenever e > 1/R, which is tested first.                   *)
Log2RoundsTo(x, k) ==
    /\ k >= 1
    /\ LET R == 2 ^ (MantissaBits - FloorLog2(k))
       IN  /\ (x - 2 ^ k) * R <= 2 ^ k
           /\ x ^ R <= 2 ^ (k * R + 1)

(* uint64_t(ceil(log2(max_capacity))) for max_capacity >= 1, computed in    *)
(* double as the code computes it: the least s with 2^s >= max_capacity    *)
(* unless one of the two roundings brings the logarithm down to an integer *)
CeilLog2(n) ==
    LET x == ToDouble(n)
        k == FloorLog2(x)
    IN  IF x = 2 ^ k THEN k
        ELSE IF Log2RoundsTo(x, k) THEN k
        ELSE k + 1

\* the values 1ul << x can take when the shift count is defined
ShiftResults == { 2 ^ s : s \in 0 .. (IndexBits - 1) }

(* ring_capacity(1ul << uint64_t(ceil(log2(max_capacity)))).                *)
(* For max_capacity = 0, log2 is -infinity and its conversion to uint64_t  *)
(* is undefined; for a max_capacity whose logarithm is the width of the    *)
(* type the shift is undefined.  Either way the build produces some shift  *)
(* 1ul << s with the count taken modulo the width.                         *)
RingCapacities(max_capacity) ==
    IF max_capacity >= 1 /\ CeilLog2(max_capacity) < IndexBits
    THEN { 2 ^ CeilLog2(max_capacity) }
    ELSE ShiftResults

(* ring(new T[ring_capacity]): an array of max_size elements is larger     *)
(* than the address space for every T and new throws std::bad_alloc; the   *)
(* smaller rings are allocated.                                            *)
Allocates(ringcap) == ringcap < max_size

\* a mask that drops the top bit of the slot number
Mut_normalize_index_half_ring(index, ringcap) == BitAnd(index, Sub(ringcap, 1) \div 2)

\* size_t normalize_index(index_t index)
normalize_index(index, ringcap) == BitAnd(index, Sub(ringcap, 1))

\* a test that reports a crossing on every advance, whatever the threshold
Mut_Crossed_on_any_advance(new, old, T) == new # old

\* a test that also counts a threshold one below the old index
Mut_Crossed_counts_below_old(new, old, T) == Sub(Sub(new, T), 1) <= Sub(new, old)

\* the test of prod_notify and cons_notify:
\* index_t(new - T - 1) < index_t(new - old)
Crossed(new, old, T) == Sub(Sub(new, T), 1) < Sub(new, old)

\* the moved-from value of a slot (a null unique_ptr)
Null == 0


\* ---------------------------------------------------------------- Semaphore
\* a signal() that leaves the flag as it found it
Mut_SemSignal_lost(flag) == flag

\* Semaphore::signal(): flag = true (and notify_one), under the mutex
SemSignal(flag) == TRUE

\* the predicate of condition.wait(lock, [this](){ return flag; })
SemReady(flag) == flag

\* a wait() that leaves the flag as it found it
Mut_SemConsume_keeps(flag) == flag

\* Semaphore::wait(), after the predicate holds: flag = false
SemConsume(flag) == FALSE

\* ------------------------------------------------------- pure queue helpers
\* a space check that forgets the slot the push is about to take
Mut_prod_has_space_no_want(pi, ci, cap, want) == Sub(pi, ci) <= cap

\* bool prod_has_space(index_t want), on the refreshed prod_ci
prod_has_space(pi, ci, cap, want) == Sub(pi, ci) <= Sub(cap, want)

\* a data check that accepts one item fewer than wanted
Mut_cons_has_data_off_by_one(pi, ci, want) == Sub(pi, ci) >= want - 1

\* bool cons_has_data(index_t want), on the refreshed cons_pi
cons_has_data(pi, ci, want) == Sub(pi, ci) >= want

\* prod_event = index_t(prod_ci + index_t(prod_pi-prod_ci)/4)
ProdEventValue(ci, pi) == Add(ci, Div(Sub(pi, ci), 4))

\* an event one past the index the consumer waits for
Mut_ConsEventValue_one_past(ci, want) == Add(ci, want)

\* cons_event = cons_ci + want - 1
ConsEventValue(ci, want) == Sub(Add(ci, want), 1)

\* a cons_advance that runs cons_notify after every pop
Mut_ConsMustNotify_always(pi, ci) == TRUE

\* the condition of cons_advance for running cons_notify
ConsMustNotify(pi, ci) == pi = ci

\* a publication of the index before the increment of prod_advance
Mut_ProdPublished_before_increment(pi) == IF pi = 0 THEN 0 ELSE Sub(pi, 1)

\* a publication of the slot number of a two-slot ring instead of the index
Mut_ProdPublished_masked(pi) == BitAnd(pi, 1)

\* the index the producer publishes in prod_notify
ProdPublished(pi) == pi

\* a publication of the index of the item just consumed instead of the next one
Mut_ConsPublished_before_advance(ci) == IF ci = 0 THEN 0 ELSE Sub(ci, 1)

\* a publication of the index one past the consumer's own
Mut_ConsPublished_one_ahead(ci) == Add(ci, 1)

\* the index the consumer publishes in cons_notify
ConsPublished(ci) == ci

\* -------------------------------------------------------------------- state
VARIABLES
    ring_capacity,   \* size_t ring_capacity
    queue_capacity,  \* size_t queue_capacity
    ring,            \* std::unique_ptr<T[]> ring, slot -> item or Null
    __prod_index,    \* atomic: index of the next element to produce
    prod_event,      \* atomic: wake up when cons_index > prod_event
    prod_ci,         \* copy of consumer index (used by producer)
    prod_pi,         \* copy of producer index (used by producer)
    __cons_index,    \* atomic: index of the next element to consume
    cons_event,      \* atomic: wake up when prod_index > cons_event
    cons_ci,         \* copy of consumer index (used by consumer)
    cons_pi,         \* copy of producer index (used by consumer)
    prod_sem,        \* Semaphore prod_sem: its flag
    cons_sem,        \* Semaphore cons_sem: its flag
    cons_not,        \* uint64_t cons_not
    prod_not,        \* uint64_t prod_not
    ppc,             \* where the producer thread is
    p_item,          \* push_front: item
    p_force,         \* push_front: force
    p_old,           \* prod_notify: old
    p_ce,            \* prod_notify: ce
    p_ret,           \* prod_notify: the caller to return to
    cpc,             \* where the consumer thread is
    c_batch,         \* pop_back: TRUE for the std::vector<T>* overload
    c_num,           \* pop_back: number of items this call moves out
    c_i,             \* pop_back: loop counter i
    c_moved,         \* pop_back: the content loaded from the slot being moved out
    c_old,           \* cons_notify: old
    c_pe,            \* cons_notify: pe
    c_ret,           \* cons_notify: the caller to return to
    pushed,          \* history: items stored in the ring, in order
    started,         \* history: number of push_front calls made
    returned,        \* history: number of push_front calls that returned
    lastForced,      \* history: number of the last item stored by a force=true push
    lastSlow,        \* history: number of the last push whose prod_wait_space published
    popped,          \* history: items handed to the consumer, in order
    prod_due,        \* history: prod_sem latches a signal its waiter was waiting for
    cons_due,        \* history: cons_sem latches a signal its waiter was waiting for
    popAfterPush,    \* history: the first pop_back was called after the first push_front,
                     \*          with force=true, returned and before any other push_front
    pwake,           \* history: the signal the producer's wait consumed, and its re-check
    cwake            \* history: the signal the consumer's wait consumed, and its re-check

sharedVars == <<__prod_index, prod_event, __cons_index, cons_event, prod_sem, cons_sem,
                prod_due, cons_due>>
ctorVars == <<ring_capacity, queue_capacity>>
prodVars == <<prod_ci, prod_pi, prod_not, ppc, p_item, p_force, p_old, p_ce, p_ret,
              pushed, started, returned, lastForced, lastSlow, pwake>>
consVars == <<cons_ci, cons_pi, cons_not, cpc, c_batch, c_num, c_i, c_moved, c_old, c_pe, c_ret,
              popped, cwake, popAfterPush>>
vars == <<ctorVars, ring, sharedVars, prodVars, consVars>>

\* ------------------------------------------------------------- construction
\* SPSCQueue(size_t max_capacity) with the member initialisers of the class
Construct(max_capacity, rc) ==
    /\ Allocates(rc)             \* ring(new T[ring_capacity])
    /\ rc <= max_size            \* assert(ring_capacity <= max_size)
    /\ ring_capacity = rc
    /\ queue_capacity = max_capacity
    /\ ring = [s \in 0 .. (rc - 1) |-> Null]
    /\ __prod_index = 0 /\ prod_event = 0 /\ prod_ci = 0 /\ prod_pi = 0
    /\ __cons_index = 0 /\ cons_event = 0 /\ cons_ci = 0 /\ cons_pi = 0
    /\ prod_sem = FALSE /\ cons_sem = FALSE
    /\ prod_due = FALSE /\ cons_due = FALSE
    /\ cons_not = 0 /\ prod_not = 0
    /\ ppc = "idle" /\ p_item = Null /\ p_force = FALSE
    /\ p_old = 0 /\ p_ce = 0 /\ p_ret = "none"
    /\ cpc = "idle" /\ c_batch = FALSE /\ c_num = 0 /\ c_i = 0 /\ c_moved = Null
    /\ c_old = 0 /\ c_pe = 0 /\ c_ret = "none"
    /\ pushed = <<>> /\ started = 0 /\ returned = 0
    /\ lastForced = 0 /\ lastSlow = 0
    /\ popped = <<>>
    /\ popAfterPush = FALSE
    /\ pwake = "none" /\ cwake = "none"

\* a queue constructed with a capacity the interface allows
Init == \E cap \in 1 .. MaxCap : \E rc \in RingCapacities(cap) : Construct(cap, rc)

\* ----------------------------------------------------------------- producer
\* the tag of the next item the producer pushes: items are numbered from 1
NextItem == started + 1

\* the number of push_front calls the producer makes on a queue of capacity cap:
\* MaxItems, and on the queue of scenario S1 enough to fill it and block in one
\* more push
Pushes(cap) == IF cap = S1Capacity THEN S1Capacity + 1 ELSE MaxItems

\* push_front(item, force) is called: push_front_forward enters prod_wait_space(1)
PushFront(item, force) ==
    /\ ppc = "idle"
    /\ started < Pushes(queue_capacity)
    /\ ppc' = "check"
    /\ p_item' = item
    /\ p_force' = force
    /\ started' = started + 1
    /\ UNCHANGED <<ctorVars, ring, sharedVars, consVars, prod_ci, prod_pi, prod_not,
                   p_old, p_ce, p_ret, pushed, returned, lastForced, lastSlow, pwake>>

\* prod_wait_space: if (prod_has_space(want)) break;
ProdCheck ==
    /\ ppc = "check"
    /\ prod_ci' = __cons_index
    /\ ppc' = IF prod_has_space(prod_pi, prod_ci', queue_capacity, 1) THEN "store" ELSE "event"
    /\ pwake' = IF pwake \notin {"due", "stale"} THEN pwake
                ELSE IF prod_has_space(prod_pi, prod_ci', queue_capacity, 1) THEN "none"
                ELSE IF pwake = "due" THEN "failed_due" ELSE "failed_stale"
    /\ UNCHANGED <<ctorVars, ring, sharedVars, consVars, prod_pi, prod_not, p_item, p_force,
                   p_old, p_ce, p_ret, pushed, started, returned, lastForced, lastSlow>>

\* prod_wait_space: prod_event = index_t(prod_ci + index_t(prod_pi-prod_ci)/4); prod_notify()
ProdSetEvent ==
    /\ ppc = "event"
    /\ prod_event' = ProdEventValue(prod_ci, prod_pi)
    /\ ppc' = "publish"
    /\ p_ret' = "wait_space"
    /\ lastSlow' = started
    /\ pwake' = "none"
    /\ UNCHANGED <<ctorVars, ring, __prod_index, __cons_index, cons_event, prod_sem, cons_sem,
                   prod_due, cons_due, consVars, prod_ci, prod_pi, prod_not, p_item, p_force, p_old, p_ce,
                   pushed, started, returned, lastForced>>

\* prod_notify: index_t old = __prod_index; __prod_index = prod_pi;
ProdPublish ==
    /\ ppc = "publish"
    /\ p_old' = __prod_index
    /\ __prod_index' = ProdPublished(prod_pi)
    /\ ppc' = "load_ce"
    /\ UNCHANGED <<ctorVars, ring, prod_event, __cons_index, cons_event, prod_sem, cons_sem,
                   prod_due, cons_due, consVars, prod_ci, prod_pi, prod_not, p_item, p_force, p_ce, p_ret,
                   pushed, started, returned, lastForced, lastSlow, pwake>>

\* prod_notify: index_t ce = cons_event;
ProdLoadEvent ==
    /\ ppc = "load_ce"
    /\ p_ce' = cons_event
    /\ ppc' = "signal"
    /\ UNCHANGED <<ctorVars, ring, sharedVars, consVars, prod_ci, prod_pi, prod_not,
                   p_item, p_force, p_old, p_ret, pushed, started, returned, lastForced, lastSlow, pwake>>

\* prod_notify returns: to the double check of prod_wait_space, or through
\* prod_advance and push_front_forward to the caller of push_front
ProdNotifyReturn ==
    /\ p_ret' = "none"
    /\ IF p_ret = "wait_space"
       THEN /\ ppc' = "recheck"
            /\ UNCHANGED <<p_item, p_force, returned>>
       ELSE /\ ppc' = "idle"
            /\ p_item' = Null
            /\ p_force' = FALSE
            /\ returned' = returned + 1

\* prod_notify: if (index_t(prod_pi - ce - 1) < index_t(prod_pi - old))
\*                { cons_sem.signal(); ...   or the return to the caller
ProdSignal ==
    /\ ppc = "signal"
    /\ IF Crossed(prod_pi, p_old, p_ce)
       THEN /\ cons_sem' = SemSignal(cons_sem)
            /\ cons_due' = (cons_due \/ (cpc \in {"wait", "parked"} /\ p_ce = cons_event))
            /\ ppc' = "count"
            /\ UNCHANGED <<p_ret, p_item, p_force, returned>>
       ELSE /\ UNCHANGED <<cons_sem, cons_due>>
            /\ ProdNotifyReturn
    /\ p_old' = 0
    /\ p_ce' = 0
    /\ UNCHANGED <<ctorVars, ring, __prod_index, prod_event, __cons_index, cons_event,
                   prod_sem, prod_due, consVars, prod_ci, prod_pi, prod_not, pushed, started,
                   lastForced, lastSlow, pwake>>

\* prod_notify: ... prod_not++; }   after the signal, and the return to the caller
ProdCount ==
    /\ ppc = "count"
    /\ prod_not' = Add(prod_not, 1)
    /\ ProdNotifyReturn
    /\ UNCHANGED <<ctorVars, ring, sharedVars, consVars, prod_ci, prod_pi, p_old, p_ce,
                   pushed, started, lastForced, lastSlow, pwake>>

\* prod_wait_space: if (prod_has_space(want)) break;  (the double check)
ProdRecheck ==
    /\ ppc = "recheck"
    /\ prod_ci' = __cons_index
    /\ ppc' = IF prod_has_space(prod_pi, prod_ci', queue_capacity, 1) THEN "store" ELSE "wait"
    /\ UNCHANGED <<ctorVars, ring, sharedVars, consVars, prod_pi, prod_not, p_item, p_force,
                   p_old, p_ce, p_ret, pushed, started, returned, lastForced, lastSlow, pwake>>

\* prod_sem.wait() is entered: return at once on a set flag, park otherwise
ProdSemWait ==
    /\ ppc = "wait"
    /\ IF SemReady(prod_sem)
       THEN /\ prod_sem' = SemConsume(prod_sem)
            /\ ppc' = "reload"
            /\ pwake' = IF prod_due THEN "due" ELSE "stale"
            /\ prod_due' = FALSE
       ELSE /\ ppc' = "parked"
            /\ UNCHANGED <<prod_sem, pwake, prod_due>>
    /\ UNCHANGED <<ctorVars, ring, __prod_index, prod_event, __cons_index, cons_event,
                   cons_sem, cons_due, consVars, prod_ci, prod_pi, prod_not, p_item, p_force, p_old,
                   p_ce, p_ret, pushed, started, returned, lastForced, lastSlow>>

\* prod_sem.wait() returns from the condition variable once the flag is set
ProdSemWake ==
    /\ ppc = "parked"
    /\ SemReady(prod_sem)
    /\ prod_sem' = SemConsume(prod_sem)
    /\ ppc' = "reload"
    /\ pwake' = IF prod_due THEN "due" ELSE "stale"
    /\ prod_due' = FALSE
    /\ UNCHANGED <<ctorVars, ring, __prod_index, prod_event, __cons_index, cons_event,
                   cons_sem, cons_due, consVars, prod_ci, prod_pi, prod_not, p_item, p_force, p_old,
                   p_ce, p_ret, pushed, started, returned, lastForced, lastSlow>>

\* prod_wait_space: prod_ci = __cons_index;  (after the wait)
ProdReload ==
    /\ ppc = "reload"
    /\ prod_ci' = __cons_index
    /\ ppc' = "check"
    /\ UNCHANGED <<ctorVars, ring, sharedVars, consVars, prod_pi, prod_not, p_item, p_force,
                   p_old, p_ce, p_ret, pushed, started, returned, lastForced, lastSlow, pwake>>

(* pop_back is at the move out of a ring slot, before its load or between *)
(* its load and its reset, while push_front is at its store into the same  *)
(* slot: the accesses to the non-atomic slot are a data race               *)
SlotRace ==
    /\ ppc = "store"
    /\ cpc \in {"read", "clear"}
    /\ normalize_index(Add(cons_ci, c_i), ring_capacity)
           = normalize_index(prod_pi, ring_capacity)

(* push_front_forward: ring[normalize_index(prod_pi)] = std::forward<U>(item); *)
(* the item is moved into the slot, the argument is left moved-from        *)
ProdStore ==
    /\ ppc = "store"
    /\ ring' = [ring EXCEPT ![normalize_index(prod_pi, ring_capacity)] = p_item]
    /\ p_item' = Null
    /\ pushed' = Append(pushed, p_item)
    /\ lastForced' = IF p_force THEN Len(pushed) + 1 ELSE lastForced
    /\ ppc' = "advance"
    /\ UNCHANGED <<ctorVars, sharedVars, consVars, prod_ci, prod_pi, prod_not,
                   p_force, p_old, p_ce, p_ret, started, returned, lastSlow, pwake>>

\* prod_advance(1, force): prod_pi += have; if (force) prod_notify();
ProdAdvance ==
    /\ ppc = "advance"
    /\ prod_pi' = Add(prod_pi, 1)
    /\ IF p_force
       THEN /\ ppc' = "publish"
            /\ p_ret' = "advance"
            /\ UNCHANGED <<p_item, p_force, returned>>
       ELSE /\ ppc' = "idle"
            /\ p_item' = Null
            /\ p_force' = FALSE
            /\ returned' = returned + 1
            /\ UNCHANGED p_ret
    /\ UNCHANGED <<ctorVars, ring, sharedVars, consVars, prod_ci, prod_not, p_old, p_ce,
                   pushed, started, lastForced, lastSlow, pwake>>

\* ----------------------------------------------------------------- consumer
\* a batch pop that moves out one item whatever cons_wait_data returned
Mut_PopCount_always_one(batch, pi, ci) == 1

\* what cons_wait_data(1) returns to pop_back, and what pop_back moves out:
\* one item for pop_back(T*), cons_pi - cons_ci items for pop_back(std::vector<T>*)
PopCount(batch, pi, ci) == IF batch THEN Sub(pi, ci) ELSE 1

\* cons_has_data(1) in cons_wait_data: break to the caller or go on to `miss`
ConsHasDataStep(at, miss) ==
    /\ cpc = at
    /\ cons_pi' = __prod_index
    /\ IF cons_has_data(cons_pi', cons_ci, 1)
       THEN /\ cpc' = "read"
            /\ c_num' = PopCount(c_batch, cons_pi', cons_ci)
            /\ c_i' = 0
       ELSE /\ cpc' = miss
            /\ UNCHANGED <<c_num, c_i>>
    /\ UNCHANGED <<ctorVars, ring, sharedVars, prodVars, cons_ci, cons_not, c_batch,
                   c_old, c_pe, c_ret, popped, c_moved, popAfterPush>>

\* pop_back(pItem) or pop_back(container) is called: cons_wait_data(1) is entered
PopBack(batch) ==
    /\ cpc = "idle"
    /\ cpc' = "check1"
    /\ c_batch' = batch
    /\ popAfterPush' = ( /\ popped = <<>>
                         /\ started = 1 /\ returned = 1 /\ lastForced = 1 )
    /\ UNCHANGED <<ctorVars, ring, sharedVars, prodVars, cons_ci, cons_pi, cons_not,
                   c_num, c_i, c_old, c_pe, c_ret, popped, c_moved, cwake>>

\* cons_wait_data: if (cons_has_data(want)) break;  (top of the loop)
ConsCheck1 ==
    /\ ConsHasDataStep("check1", "sleep")
    /\ cwake' = IF cwake \notin {"due", "stale"} THEN cwake
                ELSE IF cons_has_data(cons_pi', cons_ci, 1) THEN "none"
                ELSE IF cwake = "due" THEN "failed_due" ELSE "failed_stale"

\* cons_wait_data: std::this_thread::sleep_for(microseconds(cons_sleep_time));
ConsSleep ==
    /\ cpc = "sleep"
    /\ cpc' = "check2"
    /\ UNCHANGED <<ctorVars, ring, sharedVars, prodVars, cons_ci, cons_pi, cons_not,
                   c_batch, c_num, c_i, c_old, c_pe, c_ret, popped, c_moved, popAfterPush, cwake>>

\* cons_wait_data: if (cons_has_data(want)) break;  (after the sleep)
ConsCheck2 ==
    /\ ConsHasDataStep("check2", "event")
    /\ UNCHANGED cwake

\* cons_wait_data: cons_event = cons_ci + want - 1; cons_notify();
ConsSetEvent ==
    /\ cpc = "event"
    /\ cons_event' = ConsEventValue(cons_ci, 1)
    /\ cpc' = "publish"
    /\ c_ret' = "wait_data"
    /\ cwake' = "none"
    /\ UNCHANGED <<ctorVars, ring, __prod_index, prod_event, __cons_index, prod_sem,
                   cons_sem, prod_due, cons_due, prodVars, cons_ci, cons_pi, cons_not, c_batch, c_num, c_i,
                   c_old, c_pe, popped, c_moved, popAfterPush>>

\* cons_notify: index_t old = __cons_index; __cons_index = cons_ci;
ConsPublish ==
    /\ cpc = "publish"
    /\ c_old' = __cons_index
    /\ __cons_index' = ConsPublished(cons_ci)
    /\ cpc' = "load_pe"
    /\ UNCHANGED <<ctorVars, ring, __prod_index, prod_event, cons_event, prod_sem, cons_sem,
                   prod_due, cons_due, prodVars, cons_ci, cons_pi, cons_not, c_batch, c_num, c_i, c_pe, c_ret,
                   popped, c_moved, popAfterPush, cwake>>

\* cons_notify: index_t pe = prod_event;
ConsLoadEvent ==
    /\ cpc = "load_pe"
    /\ c_pe' = prod_event
    /\ cpc' = "signal"
    /\ UNCHANGED <<ctorVars, ring, sharedVars, prodVars, cons_ci, cons_pi, cons_not,
                   c_batch, c_num, c_i, c_old, c_ret, popped, c_moved, popAfterPush, cwake>>

\* cons_notify returns: to the double check of cons_wait_data, or through
\* cons_advance to the caller of pop_back
ConsNotifyReturn ==
    /\ c_ret' = "none"
    /\ IF c_ret = "wait_data"
       THEN /\ cpc' = "check3"
            /\ UNCHANGED <<c_batch, c_num, c_i>>
       ELSE /\ cpc' = "idle"
            /\ c_batch' = FALSE
            /\ c_num' = 0
            /\ c_i' = 0

\* cons_notify: if (index_t(cons_ci - pe - 1) < index_t(cons_ci - old))
\*                { prod_sem.signal(); ...   or the return to the caller
ConsSignal ==
    /\ cpc = "signal"
    /\ IF Crossed(cons_ci, c_old, c_pe)
       THEN /\ prod_sem' = SemSignal(prod_sem)
            /\ prod_due' = (prod_due \/ (ppc \in {"wait", "parked"} /\ c_pe = prod_event))
            /\ cpc' = "count"
            /\ UNCHANGED <<c_ret, c_batch, c_num, c_i>>
       ELSE /\ UNCHANGED <<prod_sem, prod_due>>
            /\ ConsNotifyReturn
    /\ c_old' = 0
    /\ c_pe' = 0
    /\ UNCHANGED <<ctorVars, ring, __prod_index, prod_event, __cons_index, cons_event,
                   cons_sem, cons_due, prodVars, cons_ci, cons_pi, cons_not, popped, c_moved,
                   popAfterPush, cwake>>

\* cons_notify: ... cons_not++; }   after the signal, and the return to the caller
ConsCount ==
    /\ cpc = "count"
    /\ cons_not' = Add(cons_not, 1)
    /\ ConsNotifyReturn
    /\ UNCHANGED <<ctorVars, ring, sharedVars, prodVars, cons_ci, cons_pi, c_old, c_pe,
                   popped, c_moved, popAfterPush, cwake>>

\* cons_wait_data: if (cons_has_data(want)) break;  (the double check)
ConsCheck3 ==
    /\ ConsHasDataStep("check3", "wait")
    /\ UNCHANGED cwake

\* cons_sem.wait() is entered: return at once on a set flag, park otherwise
ConsSemWait ==
    /\ cpc = "wait"
    /\ IF SemReady(cons_sem)
       THEN /\ cons_sem' = SemConsume(cons_sem)
            /\ cpc' = "check1"
            /\ cwake' = IF cons_due THEN "due" ELSE "stale"
            /\ cons_due' = FALSE
       ELSE /\ cpc' = "parked"
            /\ UNCHANGED <<cons_sem, cwake, cons_due>>
    /\ UNCHANGED <<ctorVars, ring, __prod_index, prod_event, __cons_index, cons_event,
                   prod_sem, prod_due, prodVars, cons_ci, cons_pi, cons_not, c_batch, c_num, c_i,
                   c_old, c_pe, c_ret, popped, c_moved, popAfterPush>>

\* cons_sem.wait() returns from the condition variable once the flag is set
ConsSemWake ==
    /\ cpc = "parked"
    /\ SemReady(cons_sem)
    /\ cons_sem' = SemConsume(cons_sem)
    /\ cpc' = "check1"
    /\ cwake' = IF cons_due THEN "due" ELSE "stale"
    /\ cons_due' = FALSE
    /\ UNCHANGED <<ctorVars, ring, __prod_index, prod_event, __cons_index, cons_event,
                   prod_sem, prod_due, prodVars, cons_ci, cons_pi, cons_not, c_batch, c_num, c_i,
                   c_old, c_pe, c_ret, popped, c_moved, popAfterPush>>

\* a batch loop that reads the slot of cons_ci in every iteration
Mut_ReadSlot_ignores_i(ci, i, ringcap) == normalize_index(ci, ringcap)

\* the ring slot pop_back moves out in iteration i of its loop
ReadSlot(ci, i, ringcap) == normalize_index(Add(ci, i), ringcap)

(* pop_back: *pItem = std::move(ring[normalize_index(cons_ci)]);            *)
(*           container->push_back(std::move(ring[normalize_index(cons_ci+i)])); *)
(* The move out of the slot is two accesses to it: the content is loaded,  *)
(* then the slot is reset.  Neither is atomic and nothing orders them with *)
(* the stores of the producer, which can fall between the two.             *)
ConsRead ==
    /\ cpc = "read"
    /\ c_moved' = ring[ReadSlot(cons_ci, c_i, ring_capacity)]
    /\ cpc' = "clear"
    /\ UNCHANGED <<ctorVars, ring, sharedVars, prodVars, cons_ci, cons_pi, cons_not, c_batch,
                   c_num, c_i, c_old, c_pe, c_ret, popped, cwake, popAfterPush>>

\* pop_back: the moved-from slot is left empty and the loaded content is handed
\* to *pItem or appended to the container
ConsClear ==
    /\ cpc = "clear"
    /\ ring' = [ring EXCEPT ![ReadSlot(cons_ci, c_i, ring_capacity)] = Null]
    /\ popped' = Append(popped, c_moved)
    /\ c_moved' = Null
    /\ c_i' = c_i + 1
    /\ cpc' = IF c_i + 1 = c_num THEN "advance" ELSE "read"
    /\ UNCHANGED <<ctorVars, sharedVars, prodVars, cons_ci, cons_pi, cons_not, c_batch,
                   c_num, c_old, c_pe, c_ret, cwake, popAfterPush>>

\* cons_advance(have): cons_ci += have; if (cons_pi == cons_ci) cons_notify();
ConsAdvance ==
    /\ cpc = "advance"
    /\ cons_ci' = Add(cons_ci, c_num)
    /\ IF ConsMustNotify(cons_pi, cons_ci')
       THEN /\ cpc' = "publish"
            /\ c_ret' = "advance"
            /\ UNCHANGED <<c_batch, c_num, c_i>>
       ELSE /\ cpc' = "idle"
            /\ c_batch' = FALSE
            /\ c_num' = 0
            /\ c_i' = 0
            /\ UNCHANGED c_ret
    /\ UNCHANGED <<ctorVars, ring, sharedVars, prodVars, cons_pi, cons_not, c_old, c_pe,
                   popped, c_moved, popAfterPush, cwake>>

\* ------------------------------------------------------------ specification
\* the capacities of the constructor's whole domain: the valid ones, zero, one
\* above max_size and the largest size_t
CtorCapacities == (0 .. MaxCap) \cup {max_size + 1, Modulus - 1}

\* a queue constructed with any capacity, valid or not
InitAnyCapacity ==
    \E cap \in CtorCapacities : \E rc \in RingCapacities(cap) : Construct(cap, rc)

\* a queue constructed with a valid capacity or with the capacity of scenario S1
InitS1 ==
    \E cap \in (1 .. MaxCap) \cup {S1Capacity} :
        \E rc \in RingCapacities(cap) : Construct(cap, rc)

Producer ==
    \/ \E force \in BOOLEAN : PushFront(NextItem, force)
    \/ ProdCheck
    \/ ProdSetEvent
    \/ ProdPublish
    \/ ProdLoadEvent
    \/ ProdSignal
    \/ ProdCount
    \/ ProdRecheck
    \/ ProdSemWait
    \/ ProdSemWake
    \/ ProdReload
    \/ ProdStore
    \/ ProdAdvance

Consumer ==
    \/ \E batch \in BOOLEAN : PopBack(batch)
    \/ ConsCheck1
    \/ ConsSleep
    \/ ConsCheck2
    \/ ConsSetEvent
    \/ ConsPublish
    \/ ConsLoadEvent
    \/ ConsSignal
    \/ ConsCount
    \/ ConsCheck3
    \/ ConsSemWait
    \/ ConsSemWake
    \/ ConsRead
    \/ ConsClear
    \/ ConsAdvance

Next == Producer \/ Consumer

Spec == Init /\ [][Next]_vars

\* the queue under every capacity the constructor can be called with
SpecCtor == InitAnyCapacity /\ [][Next]_vars

\* the queue under the valid capacities and the capacity of scenario S1
SpecS1 == InitS1 /\ [][Next]_vars

(* prod_notify or cons_notify is entered with any values of index_t in the  *)
(* published index (old), the private index (new) and the counterpart's     *)
(* event (T); the other thread is idle on a fresh queue.                    *)
InitNotify ==
    \E old \in 0 .. (Modulus - 1) : \E new \in 0 .. (Modulus - 1) :
    \E T \in 0 .. (Modulus - 1) : \E prod \in BOOLEAN :
        /\ queue_capacity = MaxCap
        /\ ring_capacity = 2 ^ CeilLog2(MaxCap)
        /\ ring = [s \in 0 .. (2 ^ CeilLog2(MaxCap) - 1) |-> Null]
        /\ __prod_index = (IF prod THEN old ELSE 0)
        /\ prod_pi = (IF prod THEN new ELSE 0)
        /\ cons_event = (IF prod THEN T ELSE 0)
        /\ __cons_index = (IF prod THEN 0 ELSE old)
        /\ cons_ci = (IF prod THEN 0 ELSE new)
        /\ prod_event = (IF prod THEN 0 ELSE T)
        /\ prod_ci = 0 /\ cons_pi = 0
        /\ prod_sem = FALSE /\ cons_sem = FALSE
        /\ prod_due = FALSE /\ cons_due = FALSE
        /\ cons_not = 0 /\ prod_not = 0
        /\ ppc = (IF prod THEN "publish" ELSE "idle")
        /\ p_ret = (IF prod THEN "advance" ELSE "none")
        /\ p_item = Null /\ p_force = prod /\ p_old = 0 /\ p_ce = 0
        /\ cpc = (IF prod THEN "idle" ELSE "publish")
        /\ c_ret = (IF prod THEN "none" ELSE "advance")
        /\ c_batch = FALSE /\ c_num = 0 /\ c_i = 0 /\ c_old = 0 /\ c_pe = 0
        /\ c_moved = Null
        /\ pushed = <<>> /\ started = 0 /\ returned = 0
        /\ lastForced = 0 /\ lastSlow = 0
        /\ popped = <<>>
        /\ popAfterPush = FALSE
        /\ pwake = "none" /\ cwake = "none"

\* the steps of prod_notify and of cons_notify
NotifyNext ==
    \/ ProdPublish
    \/ ProdLoadEvent
    \/ ProdSignal
    \/ ProdCount
    \/ ConsPublish
    \/ ConsLoadEvent
    \/ ConsSignal
    \/ ConsCount

\* one run of prod_notify or cons_notify over all values of old, new and T
SpecNotify == InitNotify /\ [][NotifyNext]_vars

\* the consumer thread is scheduled again and again, and keeps calling pop_back
SpecFair == Init /\ [][Next]_vars /\ WF_vars(Consumer)

\* ------------------------------------------------------------------- claims
(* C1: in every state the sequence of items handed to the consumer is a    *)
(* prefix of the sequence of items the producer stored: same order, none   *)
(* lost, none delivered twice.                                             *)
C1_PoppedIsPrefixOfPushed ==
    /\ Len(popped) <= Len(pushed)
    /\ \A k \in 1 .. Len(popped) : popped[k] = pushed[k]

\* every item came out of a ring that is smaller than the number of items
C1_Witness ==
    /\ Len(popped) = MaxItems
    /\ ring_capacity < MaxItems
    /\ c_batch

(* C2: occupancy stays within [0, C]: for the published indices and for    *)
(* the private ones, 0 <= producer index - consumer index <= C.            *)
C2_OccupancyWithinCapacity ==
    /\ Sub(__prod_index, __cons_index) <= queue_capacity
    /\ Sub(prod_pi, cons_ci) <= queue_capacity
    /\ __cons_index <= __prod_index
    /\ cons_ci <= prod_pi

\* a full queue whose newest item was pushed with force=false
C2_Witness ==
    /\ Sub(prod_pi, cons_ci) = queue_capacity
    /\ queue_capacity = MaxCap
    /\ __prod_index # prod_pi
    /\ ppc = "idle"
    /\ cons_ci > 0

(* C3: for every k, once push_front(x_k, force=true) has returned, a       *)
(* consumer that keeps calling pop_back and keeps being scheduled          *)
(* eventually receives x_k.                                                *)
C3_ForcedItemEventuallyPopped ==
    \A k \in 1 .. MaxItems :
        (lastForced = k /\ returned >= k) ~> (Len(popped) >= k /\ popped[k] = k)

\* the consumer is parked on a clear latch, behind it a forced push is under way
C3_Witness ==
    /\ cpc = "parked"
    /\ ~cons_sem
    /\ ppc = "publish"
    /\ p_ret = "advance"
    /\ Len(popped) >= 1

(* C4: when the queue holds C items and the producer is parked in the next *)
(* push, one completed single-item pop_back unblocks the producer: when a  *)
(* single-item pop returns leaving C-1 items while the producer is parked  *)
(* on a clear latch, that pop has signalled prod_sem.                      *)
C4_SinglePopUnblocksProducer ==
    [][ ( /\ ppc = "parked"
          /\ ~prod_sem
          /\ lastForced = Len(pushed)
          /\ ~c_batch
          /\ cpc # "idle"
          /\ cpc' = "idle"
          /\ Sub(prod_pi, cons_ci') = queue_capacity - 1 )
        => prod_sem' ]_vars

(* C5: with the producer parked on a full queue after publishing           *)
(* prod_event, the producer semaphore is signalled by the first single     *)
(* pop that moves the consumer index past prod_event.                      *)
C5_WokenWhenEventCrossed ==
    [][ ( /\ ppc = "parked"
          /\ ~prod_sem
          /\ ~c_batch
          /\ cpc # "idle"
          /\ cpc' = "idle"
          /\ prod_event = Sub(cons_ci', 1) )
        => prod_sem' ]_vars

(* C6, as claimed: an item pushed with force=false is never returned by a  *)
(* pop before the producer has performed a later push with force=true:     *)
(* every popped item is the item of a forced push or older than one.       *)
C6_NoPopBeforeForcedPush ==
    \A k \in 1 .. Len(popped) : k <= lastForced

(* C6, amended: an item pushed with force=false is never returned by a pop *)
(* before a later push has either stored its item with force=true or found *)
(* the queue full and run prod_notify in prod_wait_space.                  *)
C6_NoPopBeforeLaterPublish ==
    \A k \in 1 .. Len(popped) : k <= lastForced \/ k < lastSlow

\* a lazily pushed item was popped although no forced push followed it: the
\* push after it found the queue full and published it
C6_Witness ==
    /\ Len(popped) > lastForced
    /\ Len(popped) < lastSlow

(* C7: the consumer reads slot i only when i is below the producer index   *)
(* it last loaded and below __prod_index, and the slot then holds item i;  *)
(* and when a push with force=true of the item with sequence number k has  *)
(* returned (the k+1-th push), __prod_index is k+1.                        *)
C7_ReadsOnlyPublishedSlots ==
    /\ cpc \in {"read", "clear"} =>
          /\ Sub(cons_pi, Add(cons_ci, c_i)) \in 1 .. queue_capacity
          /\ Sub(__prod_index, Add(cons_ci, c_i)) \in 1 .. queue_capacity
          /\ Len(pushed) > Add(cons_ci, c_i)
          /\ ring[ReadSlot(cons_ci, c_i, ring_capacity)] = pushed[Add(cons_ci, c_i) + 1]
          /\ cpc = "clear" => c_moved = pushed[Add(cons_ci, c_i) + 1]
    /\ (ppc = "idle" /\ returned > 0 /\ lastForced = returned) =>
          /\ __prod_index = returned
          /\ __prod_index = prod_pi

\* a forced push has just published two items at once, its own and an earlier one
\* pushed with force=false, and the consumer is reading the second of them
C7_Witness ==
    /\ cpc = "read"
    /\ c_i = 1
    /\ ppc = "signal"
    /\ p_ret = "advance"
    /\ Sub(__prod_index, p_old) = 2

(* C8: constructing the queue with capacity 0 or a capacity above max_size *)
(* creates no queue: no queue with such a capacity exists on which         *)
(* push_front proceeds to store an item.                                   *)
C8_InvalidCapacityCreatesNoQueue ==
    (queue_capacity = 0 \/ queue_capacity > max_size) => Len(pushed) = 0

(* C9: a signal() that finds no thread in wait() is latched: the next      *)
(* wait() returns at once without parking and clears the latch; a wait()   *)
(* with the latch clear parks and returns only on a set latch, clearing    *)
(* it; a set latch is cleared by nothing but the waiter's return, so no    *)
(* signal is lost.                                                         *)
C9_SemaphoreLatch ==
    [][ /\ (cpc = "wait" /\ cons_sem /\ cpc' # cpc) => (cpc' = "check1" /\ ~cons_sem')
        /\ (cpc = "wait" /\ ~cons_sem /\ cpc' # cpc) => (cpc' = "parked" /\ ~cons_sem')
        /\ (cpc = "parked" /\ cpc' # cpc) => (cons_sem /\ ~cons_sem' /\ cpc' = "check1")
        /\ (cons_sem /\ ~cons_sem') => (cpc \in {"wait", "parked"} /\ cpc' = "check1")
        /\ (ppc = "signal" /\ ppc' = "count") => cons_sem'
        /\ (ppc = "wait" /\ prod_sem /\ ppc' # ppc) => (ppc' = "reload" /\ ~prod_sem')
        /\ (ppc = "wait" /\ ~prod_sem /\ ppc' # ppc) => (ppc' = "parked" /\ ~prod_sem')
        /\ (ppc = "parked" /\ ppc' # ppc) => (prod_sem /\ ~prod_sem' /\ ppc' = "reload")
        /\ (prod_sem /\ ~prod_sem') => (ppc \in {"wait", "parked"} /\ ppc' = "reload")
        /\ (cpc = "signal" /\ cpc' = "count") => prod_sem'
      ]_vars

\* the consumer is about to call wait() on a latch that is already set
C9_Witness ==
    /\ cpc = "wait"
    /\ cons_sem
    /\ ppc = "idle"

(* C10, as claimed: no signal consumed by a wait leads to a re-check that  *)
(* fails (and so to a second park), whether the signal was issued while    *)
(* the signalled side was waiting for it or not.                           *)
C10_NoConsumedSignalFailsRecheck ==
    /\ cwake \notin {"failed_due", "failed_stale"}
    /\ pwake \notin {"failed_due", "failed_stale"}

(* C10, amended: a signal issued while the signalled side is in its        *)
(* semaphore wait on the event value the signaller tested leads to a       *)
(* re-check that is true when the wait that consumes it returns; and at    *)
(* the moment such a signal is issued the waiter's condition already       *)
(* holds on the published indices.                                         *)
C10_DueSignalPassesRecheck ==
    /\ cwake # "failed_due"
    /\ pwake # "failed_due"
    /\ (cons_sem /\ cons_due /\ cpc \in {"wait", "parked"})
          => cons_has_data(__prod_index, cons_ci, 1)
    /\ (prod_sem /\ prod_due /\ ppc \in {"wait", "parked"})
          => prod_has_space(prod_pi, __cons_index, queue_capacity, 1)

\* the producer, woken by a signal it was parked for, is back at its space check
C10_Witness ==
    /\ ppc = "check"
    /\ pwake = "due"
    /\ cwake = "failed_stale"

(* C11: scenario S1: on a fresh queue of capacity S1Capacity, when the     *)
(* first push_front, with force=true, has returned before pop_back is      *)
(* called, no signal has been performed by the push (prod_not is 0 and     *)
(* both latches are clear); and when that pop_back has returned, it        *)
(* returned the pushed item, the queue is empty, and no signal has been    *)
(* performed by either side (prod_not and cons_not are 0, both latches     *)
(* are clear).                                                             *)
C11_S1NoSignals ==
    (queue_capacity = S1Capacity /\ started = 1 /\ returned = 1 /\ lastForced = 1) =>
        /\ (cpc = "idle" /\ popped = <<>>) =>
              (prod_not = 0 /\ cons_not = 0 /\ ~cons_sem /\ ~prod_sem)
        /\ (cpc = "idle" /\ popAfterPush) =>
              /\ popped = <<1>>
              /\ cons_ci = prod_pi /\ __cons_index = __prod_index
              /\ prod_not = 0 /\ cons_not = 0 /\ ~cons_sem /\ ~prod_sem

(* C12, as claimed: no lost wake-up: in no state is the consumer parked on *)
(* cons_sem with its latch clear while the producer is outside any push    *)
(* and __prod_index > cons_ci; and in no state is the producer parked on   *)
(* prod_sem with its latch clear while the consumer is outside any pop     *)
(* and __prod_index - __cons_index <= C - 1.                               *)
C12_NoLostWakeup ==
    /\ ~( /\ cpc = "parked" /\ ~cons_sem
          /\ ppc = "idle"
          /\ Sub(__prod_index, cons_ci) \in 1 .. queue_capacity )
    /\ ~( /\ ppc = "parked" /\ ~prod_sem
          /\ cpc = "idle"
          /\ Sub(__prod_index, __cons_index) <= queue_capacity - 1 )

(* C12, amended: in no state is the consumer parked on cons_sem with its   *)
(* latch clear while the producer is outside any push and                  *)
(* __prod_index > cons_ci; and in no state is the producer parked on       *)
(* prod_sem with its latch clear while the consumer is outside any pop and *)
(* __cons_index has moved past prod_event.                                 *)
C12_NoLostWakeupPastEvent ==
    /\ ~( /\ cpc = "parked" /\ ~cons_sem
          /\ ppc = "idle"
          /\ Sub(__prod_index, cons_ci) \in 1 .. queue_capacity )
    /\ ~( /\ ppc = "parked" /\ ~prod_sem
          /\ cpc = "idle"
          /\ Sub(__cons_index, prod_event) \in 1 .. queue_capacity )

\* the producer, parked with an event a quarter of the queue ahead, has been
\* signalled by the pop that moved __cons_index past the event
C12_Witness ==
    /\ ppc = "parked" /\ prod_sem
    /\ cpc = "idle"
    /\ queue_capacity = S1Capacity
    /\ prod_event = Add(prod_ci, 1)
    /\ Sub(__cons_index, prod_event) \in 1 .. queue_capacity

(* C13: threshold-crossing test: for all values old, new, T of index_t     *)
(* with index_t(new - old) <= 2^(w-1), prod_notify and cons_notify signal  *)
(* exactly when T lies in the modular interval [old, new - 1] (T = new - 1 *)
(* counts as crossed, T = old - 1 does not), also when the counters wrap;  *)
(* an advance with new = old never signals.                                *)
C13_CrossedIffInInterval ==
    [][ /\ (ppc = "signal" /\ ppc' # ppc /\ Sub(prod_pi, p_old) <= max_size) =>
              /\ (ppc' = "count") <=>
                     (\E k \in 0 .. (Sub(prod_pi, p_old) - 1) : p_ce = Add(p_old, k))
              /\ cons_sem' <=> (cons_sem \/ ppc' = "count")
              /\ (prod_pi = p_old) => (ppc' # "count")
        /\ (prod_not' # prod_not) => (ppc = "count" /\ prod_not' = Add(prod_not, 1))
        /\ (ppc = "count" /\ ppc' # ppc) => (prod_not' # prod_not)
        /\ (cpc = "signal" /\ cpc' # cpc /\ Sub(cons_ci, c_old) <= max_size) =>
              /\ (cpc' = "count") <=>
                     (\E k \in 0 .. (Sub(cons_ci, c_old) - 1) : c_pe = Add(c_old, k))
              /\ prod_sem' <=> (prod_sem \/ cpc' = "count")
              /\ (cons_ci = c_old) => (cpc' # "count")
        /\ (cons_not' # cons_not) => (cpc = "count" /\ cons_not' = Add(cons_not, 1))
        /\ (cpc = "count" /\ cpc' # cpc) => (cons_not' # cons_not)
      ]_vars

\* prod_notify has signalled for an advance that wrapped around 2^w: the
\* threshold is the largest index and the new index is 1
C13_Witness ==
    /\ ppc = "idle" /\ returned = 1 /\ started = 0
    /\ prod_not = 1 /\ cons_sem
    /\ cons_event = Modulus - 1
    /\ prod_pi = 1

(* C14: slot exclusivity: whenever the producer is writing a ring slot     *)
(* (from the store of push_front_forward until prod_advance), its write    *)
(* target prod_pi & (N-1) differs from the slot of every live index j with *)
(* cons_ci <= j < prod_pi, which the consumer is reading or has not yet    *)
(* read; the slot it stores into holds no item.                            *)
C14_SlotExclusivity ==
    ppc \in {"store", "advance"} =>
        /\ \A k \in 0 .. (Sub(prod_pi, cons_ci) - 1) :
               normalize_index(Add(cons_ci, k), ring_capacity)
                   # normalize_index(prod_pi, ring_capacity)
        /\ ppc = "store" => ring[normalize_index(prod_pi, ring_capacity)] = Null
        /\ ~SlotRace

\* second time around a ring of two slots that is its own capacity: the
\* producer stores index 3 while the consumer is in the middle of moving out
\* index 2, between the load of its slot and the reset of it
C14_Witness ==
    /\ ppc = "store" /\ cpc = "clear"
    /\ queue_capacity = 2 /\ ring_capacity = 2
    /\ prod_pi = 3 /\ cons_ci = 2 /\ c_i = 0

(* C15: across every step of every interleaving the published indices      *)
(* __prod_index and __cons_index never decrease; __prod_index is written   *)
(* only by the producer, in the store of prod_notify, and __cons_index     *)
(* only by the consumer, in the store of cons_notify.                      *)
C15_PublishedIndicesMonotonic ==
    [][ /\ __prod_index' >= __prod_index
        /\ __cons_index' >= __cons_index
        /\ (__prod_index' # __prod_index) =>
              (ppc = "publish" /\ ppc' = "load_ce" /\ __prod_index' = prod_pi /\ cpc' = cpc)
        /\ (__cons_index' # __cons_index) =>
              (cpc = "publish" /\ cpc' = "load_pe" /\ __cons_index' = cons_ci /\ ppc' = ppc)
      ]_vars

\* both sides have just stored their published index: the producer advanced
\* it by two items at once, the consumer by one
C15_Witness ==
    /\ ppc = "load_ce" /\ __prod_index = p_old + 2
    /\ cpc = "load_pe" /\ __cons_index = c_old + 1

(* C16: the batch pop_back(container) leaves its wait only when at least   *)
(* one item is published; it then appends, in FIFO order, exactly the      *)
(* k >= 1 items published at its last load of __prod_index                 *)
(* (k = cons_pi - cons_ci), advances cons_ci by k, and always runs         *)
(* cons_notify before returning, so that __cons_index = cons_ci on return. *)
C16_BatchPopTakesAllPublished ==
    /\ [] ( (c_batch /\ cpc \in {"read", "clear", "advance"}) =>
                /\ c_num = Sub(cons_pi, cons_ci)
                /\ c_num >= 1
                /\ Sub(__prod_index, cons_ci) >= c_num
                /\ Len(popped) = cons_ci + c_i
                /\ \A k \in 1 .. Len(popped) : popped[k] = k )
    /\ [][ /\ (c_batch /\ cpc = "advance" /\ cpc' # cpc) =>
                /\ c_i = c_num
                /\ cons_ci' = Add(cons_ci, c_num)
                /\ cons_ci' = cons_pi
                /\ cpc' = "publish"
          /\ (c_batch /\ cpc # "idle" /\ cpc' = "idle") =>
                /\ cpc \in {"signal", "count"}
                /\ __cons_index' = cons_ci'
                /\ Len(popped') = cons_ci'
        ]_vars

\* a batch pop that waited for its data is about to return after its
\* cons_notify: it moved out two items, the third and the fourth
C16_Witness ==
    /\ c_batch /\ cpc = "signal" /\ c_ret = "advance"
    /\ c_num = 2 /\ cons_ci = 4
    /\ __cons_index = cons_ci
    /\ cwake = "none" /\ cons_not >= 1

(* C17: consumer advance policy: after a pop has advanced cons_ci, the     *)
(* consumer runs cons_notify (storing __cons_index = cons_ci and testing   *)
(* prod_event) if and only if cons_ci = cons_pi; when cons_ci # cons_pi    *)
(* the pop returns at once, and no step of a pop outside the cons_notify   *)
(* of cons_advance changes __cons_index, sets prod_sem or counts cons_not. *)
C17_ConsumerAdvancePolicy ==
    [][ /\ (cpc = "advance" /\ cpc' # cpc) =>
              /\ cons_ci' = Add(cons_ci, c_num)
              /\ (cpc' = "publish" /\ c_ret' = "advance") <=> (cons_ci' = cons_pi)
              /\ (cons_ci' # cons_pi) =>
                    (cpc' = "idle" /\ UNCHANGED <<__cons_index, prod_sem, cons_not>>)
        /\ (cpc = "publish" /\ c_ret = "advance" /\ cpc' # cpc) =>
              (__cons_index' = cons_ci /\ cpc' = "load_pe")
        /\ (cpc = "load_pe" /\ c_ret = "advance" /\ cpc' # cpc) =>
              (c_pe' = prod_event /\ cpc' = "signal")
        /\ (cpc = "signal" /\ c_ret = "advance" /\ cpc' # cpc) =>
              /\ (cpc' = "count") <=> Crossed(cons_ci, c_old, c_pe)
              /\ (cpc' = "count") => prod_sem'
              /\ cpc' \in {"count", "idle"}
        /\ (cpc = "count" /\ c_ret = "advance" /\ cpc' # cpc) =>
              (cons_not' = Add(cons_not, 1) /\ cpc' = "idle")
        /\ (__cons_index' # __cons_index \/ cons_not' # cons_not \/ (prod_sem' /\ ~prod_sem)) =>
              (c_ret = "advance" /\ cpc \in {"publish", "signal", "count"})
      ]_vars

\* a single-item pop has returned without cons_notify: the consumer still
\* sees an item, and __cons_index is behind cons_ci
C17_Witness ==
    /\ cpc = "idle"
    /\ Len(popped) >= 1
    /\ Sub(cons_pi, cons_ci) >= 1
    /\ __cons_index < cons_ci
    /\ ppc = "parked" /\ ~prod_sem

(* C18: a push_front with force=false that finds free space on its first   *)
(* check writes only its ring slot and prod_pi (and refreshes prod_ci): it *)
(* leaves __prod_index, prod_event, cons_event, both semaphores and        *)
(* prod_not unchanged and returns from prod_advance.  A push_front with    *)
(* force=true returns only after prod_notify has stored                    *)
(* __prod_index = prod_pi, and cons_sem is signalled, and prod_not         *)
(* counted, only when cons_event, as prod_notify loaded it, lies in        *)
(* [old, prod_pi - 1].                                                     *)
C18_PushFrameAndForcedPublish ==
    [][ /\ ( /\ ~p_force /\ lastSlow # started
              /\ ppc \in {"check", "store", "advance"} /\ ppc' # ppc ) =>
              /\ UNCHANGED <<__prod_index, prod_event, cons_event, __cons_index,
                             prod_sem, cons_sem, prod_not>>
              /\ \A s \in DOMAIN ring :
                     ring'[s] # ring[s] =>
                        (ppc = "store" /\ s = normalize_index(prod_pi, ring_capacity))
              /\ prod_pi' = (IF ppc = "advance" THEN Add(prod_pi, 1) ELSE prod_pi)
              /\ (ppc = "check" /\ ppc' = "store") => prod_ci' = __cons_index
              /\ ppc = "advance" => ppc' = "idle"
        /\ (p_force /\ ppc = "advance" /\ ppc' # ppc) =>
              (ppc' = "publish" /\ p_ret' = "advance")
        /\ (ppc = "publish" /\ ppc' # ppc) => __prod_index' = prod_pi
        /\ (ppc = "load_ce" /\ ppc' # ppc) => p_ce' = cons_event
        /\ (p_force /\ ppc # "idle" /\ ppc' = "idle") =>
              (ppc \in {"signal", "count"} /\ p_ret = "advance" /\ __prod_index = prod_pi)
        /\ ((cons_sem' /\ ~cons_sem) \/ (ppc # "count" /\ ppc' = "count")) =>
              /\ ppc = "signal"
              /\ \E k \in 0 .. (Sub(prod_pi, p_old) - 1) : p_ce = Add(p_old, k)
        /\ (prod_not' # prod_not) => ppc = "count"
      ]_vars

\* a push with force=false has returned on its first check while the
\* consumer is parked: the item is stored, nothing is published, nobody is woken
C18_Witness ==
    /\ ppc = "idle" /\ returned = started /\ started >= 2
    /\ lastForced < returned /\ lastSlow < started
    /\ __prod_index < prod_pi
    /\ cpc = "parked" /\ ~cons_sem

(* C19: index chain: in every state, as unbounded counters,                *)
(* prod_ci <= __cons_index <= cons_ci <= cons_pi <= __prod_index <= prod_pi: *)
(* a shadow of the counterpart's index never runs ahead of the published   *)
(* index, and a published index never runs ahead of its owner's private    *)
(* index; the whole chain spans at most C, so that the order of the        *)
(* counters is the order of their index_t values.                          *)
C19_IndexChain ==
    /\ prod_ci <= __cons_index
    /\ __cons_index <= cons_ci
    /\ cons_ci <= cons_pi
    /\ cons_pi <= __prod_index
    /\ __prod_index <= prod_pi
    /\ Sub(prod_pi, prod_ci) <= queue_capacity

\* four of the five links are strict at once, on a full queue with the
\* consumer in the middle of a batch
C19_Witness ==
    /\ prod_ci < __cons_index
    /\ __cons_index < cons_ci
    /\ cons_ci < cons_pi
    /\ cons_pi < __prod_index
    /\ __prod_index = prod_pi

=============================================================================
